---- MODULE Spec2Model ----
(***************************************************************************)
(* Backup/restore engine of the channel backup bot (src/main.js).          *)
(*                                                                         *)
(* The Content Store is the KV namespace env.DB, the Remote Channel        *)
(* Gateway is telegramRequest.  Every await of the code is a step of the   *)
(* process that runs it; processes of different invocations interleave.    *)
(***************************************************************************)
EXTENDS Integers, Sequences, FiniteSets, TLC

VARIABLES
    store,      \* backup:<channel>:<id> keys of env.DB, key -> stored entry
    putCount,   \* number of DB.put calls made on backup keys
    users,      \* user:<id> records: user -> sequence of registered channel ids
    notifyOff,  \* users whose notify:<id> is 'off'
    manual,     \* manual_backup:<id>: user -> armed channel (string) or ""
    channel,    \* the remote channel: message id -> the message posted there
    copies,     \* forwarded copies a probe created that are still in the channel
    notified,   \* new-backup notifications sent: <<user, channel, message id>>
    post,       \* outcome of the last backupChannelPost call
    disc,       \* backupExistingMessages runs, one slot per requesting user
    rec,        \* the periodicBackupCheck sweep
    fwd,        \* outcome of the last manual forward capture
    rst,        \* the restoreBackupWithProgress run
    issued,     \* message ids whose send restore has issued, in order
    sent,       \* message ids the destination channel received, in order
    slot,       \* restore_state:<id> and restore_temp:<id>:source, per user
    reply,      \* the last answer a command handler sent, per user
    env,        \* the bindings of the invocation: TELEGRAM_BOT_TOKEN and DB
    log         \* console.error lines written by the entry points

vars == <<store, putCount, users, notifyOff, manual, channel, copies, notified,
          post, disc, rec, fwd, rst, issued, sent, slot, reply, env, log>>

---------------------------------------------------------------------------
(* Program constants *)

\* 25 * 1024 * 1024, the ceiling of backupChannelPost
FileSizeLimit == 26214400
\* latestMessageId when getChat answers ok
LatestGuessOk == 10000
\* latestMessageId when getChat does not answer ok
LatestGuessDefault == 1000
\* maxConsecutiveFailures
MaxConsecutiveFailures == 50
\* the failure milestone at which discovery edits the status message
FailureMilestone == 25
\* checkRange of periodicBackupCheck
CheckRange == 100
\* restore edits the status message when restored % 5 === 0
ProgressEvery == 5
\* restore edits the status message in the catch block when failed === 5
FailureNotice == 5
\* discovery edits the status message when backedUpCount % 10 === 0
DiscProgressEvery == 10

(* Bounds of the model *)

\* cap on the DB.put calls counted on backup keys
MaxPuts == 3
\* restore is exercised on stores holding entries for ids 8 .. RestoreHi
RestoreHi == 14
MaxAdded == 1

---------------------------------------------------------------------------
(* Values *)

\* a chat id as a JavaScript value: message.chat.id is a number, the ids kept in
\* a user's channel list are strings (resolveChannelId)
ChanNum(s) == [t |-> "number", v |-> s]
ChanStr(s) == [t |-> "string", v |-> s]

\* the one source channel of the model, and the users
ChannelName == "-100123"
Users == {"u1", "u2"}

\* an absent optional object of a Telegram message is <<>>, a present one <<obj>>
Absent == <<>>
File(id, size) == <<[file_id |-> id, file_size |-> size]>>

\* file sizes a message may report
Sizes == {1, FileSizeLimit, FileSizeLimit + 1}

BaseMessage(id) ==
    [message_id |-> id, date |-> "msg", text |-> "", caption |-> "",
     photo |-> <<>>, video |-> Absent, document |-> Absent, audio |-> Absent,
     voice |-> Absent, video_note |-> Absent, sticker |-> Absent,
     animation |-> Absent]

\* the messages a channel can hold, by kind of content; Telegram sets document
\* beside animation, and describes a photo by several renditions
Message(id, kind, size) ==
    CASE kind = "text" -> [BaseMessage(id) EXCEPT !.text = "hello"]
      [] kind = "photo" ->
            [BaseMessage(id) EXCEPT !.caption = "cap",
                !.photo = <<[file_id |-> "ph_small", file_size |-> 1],
                            [file_id |-> "ph_large", file_size |-> size]>>]
      [] kind = "video" -> [BaseMessage(id) EXCEPT !.video = File("vid", size)]
      [] kind = "document" -> [BaseMessage(id) EXCEPT !.document = File("doc", size)]
      [] kind = "audio" -> [BaseMessage(id) EXCEPT !.audio = File("aud", size)]
      [] kind = "voice" -> [BaseMessage(id) EXCEPT !.voice = File("voi", size)]
      [] kind = "animation" ->
            [BaseMessage(id) EXCEPT !.animation = File("ani", size),
                                    !.document = File("ani", size)]
      [] OTHER -> BaseMessage(id)

MediaKinds == {"photo", "video", "document", "audio", "voice", "animation"}
Kinds == MediaKinds \cup {"text", "service"}

\* no message at an id
NoMessage == [BaseMessage(0) EXCEPT !.date = "none"]

---------------------------------------------------------------------------
(* Content Store *)

\* `backup:${channelId}:${messageId}`: the template literal prints a number and
\* a string chat id alike
BackupKey(channelId, messageId) == <<channelId.v, messageId>>

\* DB.put of saveBackupMessage: the value replaces what the key held
saveBackupMessage(db, channelId, messageId, messageData) ==
    [k \in DOMAIN db \cup {BackupKey(channelId, messageId)} |->
        IF k = BackupKey(channelId, messageId) THEN messageData ELSE db[k]]

\* !!existing
isMessageBackedUp(db, channelId, messageId) ==
    BackupKey(channelId, messageId) \in DOMAIN db

\* the Backup Entries held for a (channel, message id) pair
EntriesFor(db, cname, m) ==
    {k \in DOMAIN db : k[1] = cname /\ db[k].message_id = m}

\* file_id of an optional media object, null ("") when it is absent
FileId(opt) == IF opt = Absent THEN "" ELSE opt[1].file_id
FileSize(opt) == IF opt = Absent THEN 0 ELSE opt[1].file_size

\* message.photo[message.photo.length - 1].file_id
LastPhoto(photo) == IF photo = <<>> THEN "" ELSE photo[Len(photo)].file_id

---------------------------------------------------------------------------
(* Backup Entries, as each write path builds them *)

BaseEntry(id) ==
    [message_id |-> id, date |-> "msg", text |-> "", caption |-> "",
     photo |-> "", video |-> "", document |-> "", audio |-> "", voice |-> "",
     video_note |-> "", sticker |-> "", animation |-> "", tags |-> {"backed_up"}]

\* backupData of backupChannelPost
AutoEntry(message) ==
    [message_id |-> message.message_id, date |-> message.date,
     text |-> message.text, caption |-> message.caption,
     photo |-> LastPhoto(message.photo), video |-> FileId(message.video),
     document |-> FileId(message.document), audio |-> FileId(message.audio),
     voice |-> FileId(message.voice), video_note |-> FileId(message.video_note),
     sticker |-> FileId(message.sticker), animation |-> FileId(message.animation),
     tags |-> {"backed_up", "auto_backup"}]

\* the result of forwardMessage(chat, chat, msgId): the copy carries the content
\* of the original under a new message id and the date of the forward
ForwardedCopy(original) ==
    [original EXCEPT !.message_id = 0, !.date = "fwd"]

\* backupData of backupExistingMessages
DiscoveryEntry(msgId, fwdMsg) ==
    [message_id |-> msgId, date |-> fwdMsg.date,
     text |-> fwdMsg.text, caption |-> fwdMsg.caption,
     photo |-> LastPhoto(fwdMsg.photo), video |-> FileId(fwdMsg.video),
     document |-> FileId(fwdMsg.document), audio |-> FileId(fwdMsg.audio),
     voice |-> FileId(fwdMsg.voice), video_note |-> FileId(fwdMsg.video_note),
     sticker |-> FileId(fwdMsg.sticker), animation |-> FileId(fwdMsg.animation),
     tags |-> {"backed_up", "original_exists"}]

\* backupData of periodicBackupCheck
PeriodicEntry(msgId) ==
    [BaseEntry(msgId) EXCEPT !.date = "fwd", !.tags = {"backed_up", "periodic_backup"}]

\* backupData of the forwarded-message branch of handleUpdate; forward_date is
\* the date of the original message
ManualEntry(originalMessageId, forwardedMsg) ==
    [BaseEntry(originalMessageId) EXCEPT
        !.date = "msg",
        !.text = forwardedMsg.text, !.caption = forwardedMsg.caption,
        !.photo = LastPhoto(forwardedMsg.photo), !.video = FileId(forwardedMsg.video),
        !.document = FileId(forwardedMsg.document),
        !.audio = FileId(forwardedMsg.audio), !.voice = FileId(forwardedMsg.voice),
        !.tags = {"backed_up", "manual_backup"}]

---------------------------------------------------------------------------
(* Backup Recorder: backupChannelPost and notifyChannelOwners *)

\* message.video?.file_size || message.document?.file_size ||
\* message.audio?.file_size || 0
PostFileSize(message) ==
    IF FileSize(message.video) # 0 THEN FileSize(message.video)
    ELSE IF FileSize(message.document) # 0 THEN FileSize(message.document)
    ELSE FileSize(message.audio)

\* fileSize > 25 * 1024 * 1024
TooLarge(message) == PostFileSize(message) > FileSizeLimit

\* a lookup that finds nothing
HasChannelNever(u, channelId) == FALSE

\* userData.channels.find(ch => ch.id === channelId): strict equality of a list
\* entry with the chat id of the post
HasChannel(u, channelId) == \E i \in 1..Len(users[u]) : users[u][i] = channelId

\* the users notifyChannelOwners messages about a new backup
Owners(channelId) == {u \in Users : HasChannel(u, channelId) /\ u \notin notifyOff}

\* the ids at which the channel holds a message
Posted == {m \in DOMAIN channel : channel[m] # NoMessage}

\* handleUpdate on a channel_post update for the message at id m
BackupChannelPost(m) ==
    LET message == channel[m]
        channelId == ChanNum(ChannelName)
        messageId == message.message_id
    IN  /\ m \in Posted
        /\ putCount < MaxPuts
        /\ IF TooLarge(message)
           THEN /\ post' = [id |-> messageId, result |-> "file_too_large"]
                /\ UNCHANGED <<store, putCount, notified>>
           ELSE /\ store' = saveBackupMessage(store, channelId, messageId,
                                              AutoEntry(message))
                /\ putCount' = putCount + 1
                /\ notified' = notified \cup
                       {<<u, ChannelName, messageId>> : u \in Owners(channelId)}
                /\ post' = [id |-> messageId, result |-> "success"]
        /\ UNCHANGED <<users, notifyOff, manual, channel, copies, disc, rec, fwd,
                       rst, issued, sent,
                   slot, reply, env, log>>

---------------------------------------------------------------------------
(* Remote Channel Gateway: what one telegramRequest call can do *)

\* the call answers {ok: true}, answers {ok: false}, or fetch / response.json()
\* throws
Outcomes == {"ok", "fail", "throw"}

\* forwardMessage of the message at msgId: ok only when the channel holds it
ProbeOutcomes(msgId) ==
    IF msgId \in Posted THEN Outcomes ELSE {"fail", "throw"}

---------------------------------------------------------------------------
(* History Discoverer: the /addchannel branch of handleUpdate and            *)
(* backupExistingMessages                                                  *)

IdleRun ==
    [pc |-> "idle", latestMessageId |-> 0, msgId |-> 0, currentMessageId |-> 0,
     statusMessageId |-> FALSE, consecutiveFailures |-> 0, backedUpCount |-> 0,
     skippedCount |-> 0, scannedCount |-> 0, okProbes |-> 0, threw |-> FALSE,
     pending |-> {}, report |-> "none", summary |-> FALSE, delayed |-> FALSE,
     chatInfo |-> "", failedProbes |-> 0]

\* /addchannel <channel> for an input that resolves to the channel's id: getChat
\* of the handler throws (the catch answers), answers ok=false, or answers; an id
\* already in the user's list gets the already-added answer and nothing else;
\* otherwise the entry is pushed, the list saved and discovery handed to
\* context.waitUntil. The model follows one run per user: a registration while
\* an earlier run of the same user is still scanning is left out.
AddChannel(u) ==
    /\ \E chatInfo \in Outcomes :
          CASE chatInfo = "throw" ->
                 /\ reply' = [reply EXCEPT ![u] = "error"]
                 /\ UNCHANGED <<users, disc>>
            [] chatInfo = "fail" ->
                 /\ reply' = [reply EXCEPT ![u] = "no_access"]
                 /\ UNCHANGED <<users, disc>>
            [] OTHER ->
                 IF HasChannel(u, ChanStr(ChannelName))
                 THEN /\ reply' = [reply EXCEPT ![u] = "already_added"]
                      /\ UNCHANGED <<users, disc>>
                 ELSE /\ disc[u].pc \in {"idle", "done", "failed", "raised"}
                      /\ users' = [users EXCEPT ![u] = Append(@, ChanStr(ChannelName))]
                      /\ disc' = [disc EXCEPT ![u] = [IdleRun EXCEPT !.pc = "start"]]
                      /\ reply' = [reply EXCEPT ![u] = "added"]
    /\ UNCHANGED <<store, putCount, notifyOff, manual, channel, copies, notified,
                   post, rec, fwd, rst, issued, sent, slot, env, log>>

\* userData.channels.findIndex(ch => ch.id === channelId): 0 for -1
IndexOf(list, channelId) ==
    IF \E i \in 1..Len(list) : list[i] = channelId
    THEN CHOOSE i \in 1..Len(list) :
            list[i] = channelId /\ \A j \in 1..(i - 1) : list[j] # channelId
    ELSE 0

\* userData.channels.splice(channelIndex, 1)
Splice(list, i) == [j \in 1..(Len(list) - 1) |-> IF j < i THEN list[j] ELSE list[j + 1]]

\* a removal that also deletes the backups of the channel
RemoveChannelAndBackups(u) ==
    LET channelIndex == IndexOf(users[u], ChanStr(ChannelName)) IN
    /\ IF channelIndex = 0
       THEN /\ reply' = [reply EXCEPT ![u] = "not_found"]
            /\ UNCHANGED <<users, store>>
       ELSE /\ users' = [users EXCEPT ![u] = Splice(@, channelIndex)]
            /\ store' = [k \in {j \in DOMAIN store : j[1] # ChannelName} |-> store[k]]
            /\ reply' = [reply EXCEPT ![u] = "removed"]
    /\ UNCHANGED <<putCount, notifyOff, manual, channel, copies, notified,
                   post, disc, rec, fwd, rst, issued, sent, slot, env, log>>

\* /removechannel <channel>: the entry leaves the user's list and the list is
\* saved; no backup key is touched
RemoveChannel(u) ==
    LET channelIndex == IndexOf(users[u], ChanStr(ChannelName)) IN
    /\ IF channelIndex = 0
       THEN /\ reply' = [reply EXCEPT ![u] = "not_found"]
            /\ UNCHANGED users
       ELSE /\ users' = [users EXCEPT ![u] = Splice(@, channelIndex)]
            /\ reply' = [reply EXCEPT ![u] = "removed"]
    /\ UNCHANGED <<store, putCount, notifyOff, manual, channel, copies, notified,
                   post, disc, rec, fwd, rst, issued, sent, slot, env, log>>

\* the start of a run that keeps the default estimate whatever getChat answers
DiscInitDefaultOnly(u) ==
    /\ disc[u].pc = "start"
    /\ \E chatInfo \in Outcomes, initialMsg \in Outcomes :
          disc' = [disc EXCEPT ![u] =
             IF "throw" \in {chatInfo, initialMsg}
             THEN [@ EXCEPT !.pc = "catch", !.threw = TRUE]
             ELSE [@ EXCEPT
                     !.pc = "loop", !.chatInfo = chatInfo,
                     !.latestMessageId = LatestGuessDefault,
                     !.msgId = LatestGuessDefault,
                     !.statusMessageId = (initialMsg = "ok")]]
    /\ UNCHANGED <<store, putCount, users, notifyOff, manual, channel, copies,
                   notified, post, rec, fwd, rst, issued, sent,
                   slot, reply, env, log>>

\* getUpdates, getChat and the initial status message
DiscInit(u) ==
    /\ disc[u].pc = "start"
    /\ \E chatInfo \in Outcomes, initialMsg \in Outcomes :
          disc' = [disc EXCEPT ![u] =
             IF "throw" \in {chatInfo, initialMsg}
             THEN [@ EXCEPT !.pc = "catch", !.threw = TRUE]
             ELSE [@ EXCEPT
                     !.pc = "loop", !.chatInfo = chatInfo,
                     !.latestMessageId =
                         IF chatInfo = "ok" THEN LatestGuessOk ELSE LatestGuessDefault,
                     !.msgId =
                         IF chatInfo = "ok" THEN LatestGuessOk ELSE LatestGuessDefault,
                     !.statusMessageId = (initialMsg = "ok")]]
    /\ UNCHANGED <<store, putCount, users, notifyOff, manual, channel, copies,
                   notified, post, rec, fwd, rst, issued, sent,
                   slot, reply, env, log>>

\* the loop condition with <= for <
DiscContinuesOffByOne(r) ==
    r.msgId > 0 /\ r.consecutiveFailures <= MaxConsecutiveFailures

\* the loop condition without the cutoff
DiscContinuesNoCutoff(r) == r.msgId > 0

\* msgId > 0 && consecutiveFailures < maxConsecutiveFailures
DiscContinues(r) ==
    r.msgId > 0 /\ r.consecutiveFailures < MaxConsecutiveFailures

\* one iteration up to the answer of the probe; a failed probe ends the
\* iteration (counter, milestone edit, delay, msgId--)
DiscProbe(u) ==
    LET r == disc[u] IN
    /\ r.pc = "loop"
    /\ DiscContinues(r)
    /\ \E forwardResult \in ProbeOutcomes(r.msgId), edit \in {"ok", "throw"} :
         LET s == [r EXCEPT !.currentMessageId = r.msgId,
                            !.scannedCount = @ + 1, !.delayed = FALSE]
             milestone == s.consecutiveFailures + 1 = FailureMilestone
                          /\ s.statusMessageId
         IN  /\ (edit = "throw") => (forwardResult = "fail" /\ milestone)
             /\ CASE forwardResult = "ok" ->
                       /\ disc' = [disc EXCEPT ![u] =
                             [s EXCEPT !.pc = "check", !.consecutiveFailures = 0,
                                       !.okProbes = @ + 1,
                                       !.pending = @ \cup {r.msgId}]]
                       /\ copies' = copies \cup {<<u, r.msgId>>}
                  [] forwardResult = "fail" ->
                       /\ disc' = [disc EXCEPT ![u] =
                             IF edit = "throw"
                             THEN [s EXCEPT !.pc = "catch", !.threw = TRUE,
                                            !.consecutiveFailures = @ + 1,
                                            !.failedProbes = @ + 1]
                             ELSE [s EXCEPT !.consecutiveFailures = @ + 1,
                                            !.failedProbes = @ + 1,
                                            !.msgId = @ - 1, !.delayed = TRUE]]
                       /\ UNCHANGED copies
                  [] OTHER ->
                       /\ disc' = [disc EXCEPT ![u] =
                             [s EXCEPT !.pc = "catch", !.threw = TRUE]]
                       /\ UNCHANGED copies
    /\ UNCHANGED <<store, putCount, users, notifyOff, manual, channel, notified,
                   post, rec, fwd, rst, issued, sent,
                   slot, reply, env, log>>

\* what one call of the KV binding can do: answer, or reject (a limit of the
\* plan, a network fault)
StoreOutcomes == {"ok", "throw"}

\* if (await isMessageBackedUp(DB, channelId, msgId))
DiscCheck(u) ==
    LET r == disc[u] IN
    /\ r.pc = "check"
    /\ \E get \in StoreOutcomes :
          disc' = [disc EXCEPT ![u] =
             IF get = "throw" THEN [r EXCEPT !.pc = "catch", !.threw = TRUE]
             ELSE [r EXCEPT !.pc =
                     IF isMessageBackedUp(store, ChanStr(ChannelName), r.msgId)
                     THEN "skip" ELSE "save"]]
    /\ UNCHANGED <<store, putCount, users, notifyOff, manual, channel, copies,
                   notified, post, rec, fwd, rst, issued, sent,
                   slot, reply, env, log>>

\* deleteMessage of the forwarded copy: only an ok answer removes it
DeleteCopy(cs, copy, outcome) == IF outcome = "ok" THEN cs \ {copy} ELSE cs

\* the already-backed-up branch without its skippedCount++
DiscSkipUncounted(u) ==
    LET r == disc[u] IN
    /\ r.pc = "skip"
    /\ \E del \in Outcomes :
          /\ copies' = DeleteCopy(copies, <<u, r.msgId>>, del)
          /\ disc' = [disc EXCEPT ![u] =
                IF del = "throw"
                THEN [r EXCEPT !.pc = "catch", !.threw = TRUE,
                               !.pending = @ \ {r.msgId}]
                ELSE [r EXCEPT !.pc = "loop",
                               !.msgId = @ - 1, !.pending = @ \ {r.msgId}]]
    /\ UNCHANGED <<store, putCount, users, notifyOff, manual, channel, notified,
                   post, rec, fwd, rst, issued, sent,
                   slot, reply, env, log>>

\* already backed up: delete the copy, skippedCount++, continue (the continue
\* passes over both delays of the loop body)
DiscSkip(u) ==
    LET r == disc[u] IN
    /\ r.pc = "skip"
    /\ \E del \in Outcomes :
          /\ copies' = DeleteCopy(copies, <<u, r.msgId>>, del)
          /\ disc' = [disc EXCEPT ![u] =
                IF del = "throw"
                THEN [r EXCEPT !.pc = "catch", !.threw = TRUE,
                               !.pending = @ \ {r.msgId}]
                ELSE [r EXCEPT !.pc = "loop", !.skippedCount = @ + 1,
                               !.msgId = @ - 1, !.pending = @ \ {r.msgId}]]
    /\ UNCHANGED <<store, putCount, users, notifyOff, manual, channel, notified,
                   post, rec, fwd, rst, issued, sent,
                   slot, reply, env, log>>

\* saveBackupMessage and backedUpCount++
DiscSave(u) ==
    LET r == disc[u]
        fwdMsg == ForwardedCopy(channel[r.msgId])
    IN
    /\ r.pc = "save"
    /\ \E put \in StoreOutcomes :
          IF put = "throw"
          THEN /\ disc' = [disc EXCEPT ![u] = [r EXCEPT !.pc = "catch", !.threw = TRUE]]
               /\ UNCHANGED <<store, putCount>>
          ELSE /\ store' = saveBackupMessage(store, ChanStr(ChannelName), r.msgId,
                                             DiscoveryEntry(r.msgId, fwdMsg))
               /\ putCount' = putCount + 1
               /\ disc' = [disc EXCEPT ![u] =
                     [r EXCEPT !.pc = "delete", !.backedUpCount = @ + 1]]
    /\ UNCHANGED <<users, notifyOff, manual, channel, copies, notified, post, rec,
                   fwd, rst, issued, sent,
                   slot, reply, env, log>>

\* delete the copy after saving, the status update (every 5 seconds or every 10
\* saved messages), the 100 ms delay, msgId--
DiscDelete(u) ==
    LET r == disc[u] IN
    /\ r.pc = "delete"
    /\ \E del \in Outcomes, edit \in {"none", "ok", "throw"} :
          /\ (edit # "none") => (del # "throw" /\ r.statusMessageId)
          /\ (edit = "none" /\ del # "throw" /\ r.statusMessageId)
                => r.backedUpCount % DiscProgressEvery # 0
          /\ copies' = DeleteCopy(copies, <<u, r.msgId>>, del)
          /\ disc' = [disc EXCEPT ![u] =
                IF del = "throw" \/ edit = "throw"
                THEN [r EXCEPT !.pc = "catch", !.threw = TRUE,
                               !.pending = @ \ {r.msgId}]
                ELSE [r EXCEPT !.pc = "loop", !.msgId = @ - 1,
                               !.pending = @ \ {r.msgId}, !.delayed = TRUE]]
    /\ UNCHANGED <<store, putCount, users, notifyOff, manual, channel, notified,
                   post, rec, fwd, rst, issued, sent,
                   slot, reply, env, log>>

\* the loop has ended: the completion edit with the three counts when there is
\* a status message, the return, and in the /addchannel task the summary
\* message when count > 0 (its throw rejects the task, outside the function)
DiscFinish(u) ==
    LET r == disc[u] IN
    /\ r.pc = "loop"
    /\ ~DiscContinues(r)
    /\ \E edit \in {"ok", "throw"}, note \in {"ok", "throw"} :
          /\ (edit = "throw") => r.statusMessageId
          /\ (note = "throw") => (edit = "ok" /\ r.backedUpCount > 0)
          /\ disc' = [disc EXCEPT ![u] =
                IF edit = "throw" THEN [r EXCEPT !.pc = "catch", !.threw = TRUE]
                ELSE [r EXCEPT !.pc = "done",
                               !.report = IF r.statusMessageId THEN "final" ELSE @,
                               !.summary = (r.backedUpCount > 0 /\ note = "ok")]]
    /\ UNCHANGED <<store, putCount, users, notifyOff, manual, channel, copies,
                   notified, post, rec, fwd, rst, issued, sent,
                   slot, reply, env, log>>

\* catch (err): the error report; a throw of the report itself leaves the
\* function
DiscCatch(u) ==
    LET r == disc[u] IN
    /\ r.pc = "catch"
    /\ \E report \in {"ok", "throw"} :
          disc' = [disc EXCEPT ![u] =
             IF report = "throw" THEN [r EXCEPT !.pc = "raised"]
             ELSE [r EXCEPT !.pc = "failed", !.report = "error"]]
    /\ UNCHANGED <<store, putCount, users, notifyOff, manual, channel, copies,
                   notified, post, rec, fwd, rst, issued, sent,
                   slot, reply, env, log>>

---------------------------------------------------------------------------
(* Periodic Reconciler: periodicBackupCheck *)

IdleSweep ==
    [pc |-> "idle", todo |-> <<>>, user |-> "", latestBackupId |-> 0, msgId |-> 0,
     newBackups |-> 0, totalBacked |-> 0, totalChecked |-> 0, probes |-> 0,
     summaries |-> {}, caught |-> FALSE, pending |-> {}, delayed |-> FALSE,
     paused |-> FALSE, aborted |-> FALSE]

\* DB.list({prefix: 'user:'}) returns the keys in the order of their names
UserOrder == <<"u1", "u2">>

\* the (user, channel) pairs the two for loops visit, in order; a user with no
\* channel is passed over
RECURSIVE SweepPairs(_)
SweepPairs(us) ==
    IF us = <<>> THEN <<>>
    ELSE [i \in 1..Len(users[Head(us)]) |-> <<Head(us), users[Head(us)][i]>>]
         \o SweepPairs(Tail(us))

RECURSIVE MaxOf(_)
MaxOf(S) ==
    IF S = {} THEN 0
    ELSE LET x == CHOOSE y \in S : TRUE
             m == MaxOf(S \ {x})
         IN  IF x > m THEN x ELSE m

\* latestBackupId: the largest parseInt(name.split(':')[2]) over the keys of the
\* channel's prefix, 0 when there is none
LatestBackupId(db, channelId) == MaxOf({k[2] : k \in {j \in DOMAIN db : j[1] = channelId.v}})

\* the scheduled trigger or /checkbackup starts a sweep: DB.list of the user
\* keys; when it rejects, the outermost catch logs and the sweep is over
RecStart ==
    /\ rec.pc \in {"idle", "done"}
    /\ \E list \in StoreOutcomes :
          rec' = IF list = "throw"
                 THEN [IdleSweep EXCEPT !.pc = "done", !.aborted = TRUE]
                 ELSE [IdleSweep EXCEPT !.pc = "channel", !.todo = SweepPairs(UserOrder)]
    /\ UNCHANGED <<store, putCount, users, notifyOff, manual, channel, copies,
                   notified, post, disc, fwd, rst, issued, sent,
                   slot, reply, env, log>>

\* the end of one channel's pass, by the end of the try or by the per-channel
\* catch (rec.caught): the 1000 ms delay runs, the next channel is up
NextChannel(r) == [r EXCEPT !.pc = "channel", !.todo = Tail(@), !.paused = TRUE]

\* the head of a pass whose window starts at id 1 whatever is stored
RecChannelFromFirstId ==
    /\ rec.pc = "channel"
    /\ IF rec.todo = <<>>
       THEN rec' = [rec EXCEPT !.pc = "done"]
       ELSE \E get \in StoreOutcomes, list \in StoreOutcomes :
               LET userId == Head(rec.todo)[1]
                   latest == LatestBackupId(store, Head(rec.todo)[2])
                   r      == [rec EXCEPT !.user = userId, !.totalChecked = @ + 1,
                                         !.paused = FALSE]
               IN  /\ (get = "throw") => (userId # rec.user /\ list = "ok")
                   /\ rec' = CASE get = "throw" ->
                                    [rec EXCEPT !.pc = "done", !.aborted = TRUE]
                               [] list = "throw" ->
                                    NextChannel([r EXCEPT !.newBackups = 0, !.probes = 0,
                                                          !.caught = TRUE])
                               [] OTHER ->
                                    [r EXCEPT !.pc = "probe", !.latestBackupId = latest,
                                              !.msgId = 1, !.newBackups = 0,
                                              !.probes = 0]
    /\ UNCHANGED <<store, putCount, users, notifyOff, manual, channel, copies,
                   notified, post, disc, fwd, rst, issued, sent,
                   slot, reply, env, log>>

\* the head of one channel's pass: for the first channel of a user the read of
\* the user's record (outside the per-channel try: a rejection ends the sweep in
\* the outermost catch), then totalChecked++, the list of the backup keys (a
\* rejection goes to the per-channel catch) and latestBackupId
RecChannel ==
    /\ rec.pc = "channel"
    /\ IF rec.todo = <<>>
       THEN rec' = [rec EXCEPT !.pc = "done"]
       ELSE \E get \in StoreOutcomes, list \in StoreOutcomes :
               LET userId == Head(rec.todo)[1]
                   latest == LatestBackupId(store, Head(rec.todo)[2])
                   r      == [rec EXCEPT !.user = userId, !.totalChecked = @ + 1,
                                         !.paused = FALSE]
               IN  /\ (get = "throw") => (userId # rec.user /\ list = "ok")
                   /\ rec' = CASE get = "throw" ->
                                    [rec EXCEPT !.pc = "done", !.aborted = TRUE]
                               [] list = "throw" ->
                                    NextChannel([r EXCEPT !.newBackups = 0, !.probes = 0,
                                                          !.caught = TRUE])
                               [] OTHER ->
                                    [r EXCEPT !.pc = "probe", !.latestBackupId = latest,
                                              !.msgId = latest + 1, !.newBackups = 0,
                                              !.probes = 0]
    /\ UNCHANGED <<store, putCount, users, notifyOff, manual, channel, copies,
                   notified, post, disc, fwd, rst, issued, sent,
                   slot, reply, env, log>>

\* msgId <= latestBackupId + checkRange
RecInWindow == rec.msgId <= rec.latestBackupId + CheckRange

\* forwardMessage for one id of the window; a failed or throwing probe moves on
\* to the next id with no delay
RecProbe ==
    /\ rec.pc = "probe"
    /\ RecInWindow
    /\ \E fwdResult \in ProbeOutcomes(rec.msgId) :
          LET r == [rec EXCEPT !.probes = @ + 1, !.delayed = FALSE] IN
          IF fwdResult = "ok"
          THEN /\ rec' = [r EXCEPT !.pc = "delete", !.pending = @ \cup {rec.msgId}]
               /\ copies' = copies \cup {<<"sweep", rec.msgId>>}
          ELSE /\ rec' = [r EXCEPT !.msgId = @ + 1]
               /\ UNCHANGED copies
    /\ UNCHANGED <<store, putCount, users, notifyOff, manual, channel, notified,
                   post, disc, fwd, rst, issued, sent,
                   slot, reply, env, log>>

\* deleteMessage of the forwarded copy; a throw is swallowed by the inner catch
RecDelete ==
    /\ rec.pc = "delete"
    /\ \E del \in Outcomes :
          /\ copies' = DeleteCopy(copies, <<"sweep", rec.msgId>>, del)
          /\ rec' = IF del = "throw"
                    THEN [rec EXCEPT !.pc = "probe", !.msgId = @ + 1,
                                     !.pending = @ \ {rec.msgId}]
                    ELSE [rec EXCEPT !.pc = "check", !.pending = @ \ {rec.msgId}]
    /\ UNCHANGED <<store, putCount, users, notifyOff, manual, channel, notified,
                   post, disc, fwd, rst, issued, sent,
                   slot, reply, env, log>>

\* if (await isMessageBackedUp(DB, channel.id, msgId)) continue; a rejection of
\* the read is swallowed by the inner catch
RecCheck ==
    /\ rec.pc = "check"
    /\ \E get \in StoreOutcomes :
          rec' = IF get = "throw"
                    \/ isMessageBackedUp(store, Head(rec.todo)[2], rec.msgId)
                 THEN [rec EXCEPT !.pc = "probe", !.msgId = @ + 1]
                 ELSE [rec EXCEPT !.pc = "save"]
    /\ UNCHANGED <<store, putCount, users, notifyOff, manual, channel, copies,
                   notified, post, disc, fwd, rst, issued, sent,
                   slot, reply, env, log>>

\* saveBackupMessage, newBackups++, totalBacked++, the 200 ms delay; a rejection
\* of the write is swallowed by the inner catch
RecSave ==
    /\ rec.pc = "save"
    /\ \E put \in StoreOutcomes :
          IF put = "throw"
          THEN /\ rec' = [rec EXCEPT !.pc = "probe", !.msgId = @ + 1]
               /\ UNCHANGED <<store, putCount>>
          ELSE /\ store' = saveBackupMessage(store, Head(rec.todo)[2], rec.msgId,
                                             PeriodicEntry(rec.msgId))
               /\ putCount' = putCount + 1
               /\ rec' = [rec EXCEPT !.pc = "probe", !.msgId = @ + 1,
                                     !.newBackups = @ + 1, !.totalBacked = @ + 1,
                                     !.delayed = TRUE]
    /\ UNCHANGED <<users, notifyOff, manual, channel, copies, notified, post, disc,
                   fwd, rst, issued, sent,
                   slot, reply, env, log>>

\* the end of a pass with no per-channel catch: a throw of the summary leaves
\* the function
RecSummaryUncaught ==
    /\ rec.pc = "probe"
    /\ ~RecInWindow
    /\ \E summary \in {"none", "ok", "throw"} :
          /\ (summary = "none") <=> (rec.newBackups = 0)
          /\ rec' = IF summary = "throw" THEN [rec EXCEPT !.pc = "raised"]
                    ELSE NextChannel(
                           [rec EXCEPT !.summaries = IF summary = "ok"
                                                     THEN @ \cup {Head(rec.todo)[1]}
                                                     ELSE @])
    /\ UNCHANGED <<store, putCount, users, notifyOff, manual, channel, copies,
                   notified, post, disc, fwd, rst, issued, sent,
                   slot, reply, env, log>>

\* the window is done: the count summary to the user of this pass when
\* newBackups > 0 (a throw is swallowed by the per-channel catch), then the
\* delay between channels and the next channel
RecSummary ==
    /\ rec.pc = "probe"
    /\ ~RecInWindow
    /\ \E summary \in {"none", "ok", "throw"} :
          /\ (summary = "none") <=> (rec.newBackups = 0)
          /\ rec' = NextChannel(
                 [rec EXCEPT !.summaries = IF summary = "ok"
                                           THEN @ \cup {Head(rec.todo)[1]} ELSE @,
                             !.caught = @ \/ summary = "throw"])
    /\ UNCHANGED <<store, putCount, users, notifyOff, manual, channel, copies,
                   notified, post, disc, fwd, rst, issued, sent,
                   slot, reply, env, log>>

---------------------------------------------------------------------------
(* Manual capture: /manualbackup, /stopmanual and the forwarded-message      *)
(* branch of handleUpdate                                                  *)

\* /manualbackup <channel>: the channel must be in the user's list
ArmManual(u) ==
    /\ HasChannel(u, ChanStr(ChannelName))
    /\ manual[u] # ChannelName
    /\ manual' = [manual EXCEPT ![u] = ChannelName]
    /\ UNCHANGED <<store, putCount, users, notifyOff, channel, copies, notified,
                   post, disc, rec, fwd, rst, issued, sent,
                   slot, reply, env, log>>

\* /stopmanual
StopManual(u) ==
    /\ manual[u] # ""
    /\ manual' = [manual EXCEPT ![u] = ""]
    /\ UNCHANGED <<store, putCount, users, notifyOff, channel, copies, notified,
                   post, disc, rec, fwd, rst, issued, sent,
                   slot, reply, env, log>>

\* the user forwards the channel's message m to the bot
ManualCapture(u, m) ==
    LET forwardedMsg == channel[m]
        channelId == ChanNum(ChannelName)
        originalMessageId == forwardedMsg.message_id
    IN  /\ m \in Posted
        /\ manual[u] # "" /\ channelId.v = manual[u]
        /\ IF isMessageBackedUp(store, channelId, originalMessageId)
           THEN /\ fwd' = [id |-> originalMessageId, result |-> "exists"]
                /\ UNCHANGED <<store, putCount>>
           ELSE /\ store' = saveBackupMessage(store, channelId, originalMessageId,
                                 ManualEntry(originalMessageId, forwardedMsg))
                /\ putCount' = putCount + 1
                /\ fwd' = [id |-> originalMessageId, result |-> "saved"]
        /\ UNCHANGED <<users, notifyOff, manual, channel, copies, notified, post,
                       disc, rec, rst, issued, sent,
                   slot, reply, env, log>>

---------------------------------------------------------------------------
(* Notification preference: /notifyoff and /notifyon                        *)

\* /notifyoff: DB.put(`notify:${userId}`, 'off')
NotifyOff(u) ==
    /\ notifyOff' = notifyOff \cup {u}
    /\ reply' = [reply EXCEPT ![u] = "notify_off"]
    /\ UNCHANGED <<store, putCount, users, manual, channel, copies, notified, post,
                   disc, rec, fwd, rst, issued, sent, slot, env, log>>

\* /notifyon: DB.put(`notify:${userId}`, 'on')
NotifyOn(u) ==
    /\ notifyOff' = notifyOff \ {u}
    /\ reply' = [reply EXCEPT ![u] = "notify_on"]
    /\ UNCHANGED <<store, putCount, users, manual, channel, copies, notified, post,
                   disc, rec, fwd, rst, issued, sent, slot, env, log>>

---------------------------------------------------------------------------
(* Restore flow of handleUpdate: the restore_source callback and the       *)
(* destination message                                                     *)

\* no restore flow open: neither restore_state nor restore_temp is set, and no
\* handler of the user is between two of its awaits. callback is the position
\* of a restore_source callback in flight with its local sourceId, cleanup the
\* position of a destination handler that has reached its deletes
IdleSlot == [state |-> "", source |-> "",
             callback |-> [pc |-> "", sourceId |-> ""], cleanup |-> ""]

\* the chat the user names as destination
TargetName == "-100999"

\* callback restore_source:<id> for the channel: answerCallbackQuery, the put
\* of restore_temp, the lookup of the source in the user's list, the prompt and
\* the put of restore_state; a throw goes to the catch, which answers the
\* callback again
PickSource(u) ==
    /\ \E answer \in {"ok", "throw"}, prompt \in {"ok", "throw"} :
          /\ (prompt = "throw") => (answer = "ok" /\ HasChannel(u, ChanStr(ChannelName)))
          /\ CASE answer = "throw" ->
                    /\ reply' = [reply EXCEPT ![u] = "callback_error"]
                    /\ UNCHANGED slot
               [] answer = "ok" /\ ~HasChannel(u, ChanStr(ChannelName)) ->
                    /\ slot' = [slot EXCEPT ![u].source = ChannelName]
                    /\ reply' = [reply EXCEPT ![u] = "source_not_found"]
               [] answer = "ok" /\ HasChannel(u, ChanStr(ChannelName))
                     /\ prompt = "throw" ->
                    /\ slot' = [slot EXCEPT ![u].source = ChannelName]
                    /\ reply' = [reply EXCEPT ![u] = "callback_error"]
               [] OTHER ->
                    /\ slot' = [slot EXCEPT ![u].state = "waiting_target",
                                            ![u].source = ChannelName]
                    /\ reply' = [reply EXCEPT ![u] = "ask_target"]
    /\ UNCHANGED <<store, putCount, users, notifyOff, manual, channel, copies,
                   notified, post, disc, rec, fwd, rst, issued, sent, env, log>>

\* resolveChannelId(token, text.trim()): the id for a numeric input or a
\* username getChat answers for, null ("") otherwise
ResolvedTargets == {"", TargetName}

\* (await DB.list({prefix: `backup:${sourceId}:`})).keys.length
BackupCount(db, sourceId) == Cardinality({k \in DOMAIN db : k[1] = sourceId})

\* a text that is no command from a user whose restore_state is waiting_target:
\* the destination input. targetId is what the text resolves to; sourceChat and
\* targetChat are the two getChat calls, answer the rest of the try (the key
\* count and the message sent: no access / no backups / transfer started),
\* apology the message of the catch. The transfer itself is handed to context.waitUntil.
TargetInput(u) ==
    /\ slot[u].state = "waiting_target"
    /\ \E targetId \in ResolvedTargets, sourceChat \in Outcomes, targetChat \in Outcomes,
          answer \in {"ok", "throw"}, apology \in {"ok", "throw"} :
          LET sourceId == slot[u].source
              threw == "throw" \in {sourceChat, targetChat, answer}
          IN  CASE targetId = "" ->
                     /\ reply' = [reply EXCEPT ![u] = "invalid_target"]
                     /\ UNCHANGED slot
                [] targetId # "" /\ threw /\ apology = "throw" ->
                     /\ reply' = [reply EXCEPT ![u] = "unanswered"]
                     /\ UNCHANGED slot
                [] targetId # "" /\ threw /\ apology = "ok" ->
                     /\ reply' = [reply EXCEPT ![u] = "error"]
                     /\ slot' = [slot EXCEPT ![u].state = "", ![u].source = ""]
                [] targetId # "" /\ ~threw /\ "fail" \in {sourceChat, targetChat} ->
                     /\ reply' = [reply EXCEPT ![u] = "no_access"]
                     /\ UNCHANGED slot
                [] OTHER ->
                     /\ reply' = [reply EXCEPT ![u] =
                           IF BackupCount(store, sourceId) = 0
                           THEN "no_backups" ELSE "restore_started"]
                     /\ slot' = [slot EXCEPT ![u].state = "", ![u].source = ""]
    /\ UNCHANGED <<store, putCount, users, notifyOff, manual, channel, copies,
                   notified, post, disc, rec, fwd, rst, issued, sent, env, log>>

\* a chat that is in no user's list
OtherName == "-100555"

\* handleUpdate on a private message of user u that is a forward of the
\* message with id m from the chat `from`, carrying the text of channel[m]
\* (which starts with no '/'): with restore_state waiting_target and a text
\* the restore branch takes it as the destination, resolveChannelId answers
\* null for it and the invalid-format answer is sent; otherwise no command
\* matches and the forwarded-message branch runs, which does nothing unless
\* manual_backup:<u> is the id of `from`
ForwardedMessage(u, from, m) ==
    /\ m \in Posted
    /\ IF slot[u].state = "waiting_target" /\ channel[m].text # ""
       THEN /\ reply' = [reply EXCEPT ![u] = "invalid_target"]
            /\ fwd' = [id |-> m, result |-> "taken_as_target"]
            /\ UNCHANGED <<store, putCount, users, notifyOff, manual, channel,
                           copies, notified, post, disc, rec, rst, issued, sent,
                           slot, env, log>>
       ELSE IF manual[u] # "" /\ from = manual[u]
       THEN ManualCapture(u, m)
       ELSE /\ fwd' = [id |-> m, result |-> "ignored"]
            /\ UNCHANGED <<store, putCount, users, notifyOff, manual, channel,
                           copies, notified, post, disc, rec, rst, issued, sent,
                           slot, reply, env, log>>

---------------------------------------------------------------------------
(* The restore flow await by await: two updates of one user are handled by *)
(* two invocations of handleUpdate, which interleave at their awaits       *)

\* the channel ids a callback or a /restore command may name
SourceNames == {ChannelName, OtherName}

\* callback restore_source:<sourceId>, up to its first write:
\* answerCallbackQuery and DB.put(`restore_temp:${userId}:source`, sourceId);
\* a throw goes to the catch, which answers the callback again
CallbackPut(u, sourceId) ==
    /\ slot[u].callback.pc = ""
    /\ \E answer \in {"ok", "throw"} :
          IF answer = "throw"
          THEN /\ reply' = [reply EXCEPT ![u] = "callback_error"]
               /\ UNCHANGED slot
          ELSE /\ slot' = [slot EXCEPT ![u].source = sourceId,
                              ![u].callback = [pc |-> "lookup", sourceId |-> sourceId]]
               /\ UNCHANGED reply
    /\ UNCHANGED <<store, putCount, users, notifyOff, manual, channel, copies,
                   notified, post, disc, rec, fwd, rst, issued, sent, env, log>>

\* the callback goes on: getUserData, the lookup of sourceId in the user's
\* list, the not-found answer and return, or the prompt for the destination
CallbackLookup(u) ==
    /\ slot[u].callback.pc = "lookup"
    /\ \E prompt \in {"ok", "throw"} :
          LET found == HasChannel(u, ChanStr(slot[u].callback.sourceId)) IN
          /\ (prompt = "throw") => found
          /\ CASE ~found ->
                    /\ reply' = [reply EXCEPT ![u] = "source_not_found"]
                    /\ slot' = [slot EXCEPT ![u].callback = IdleSlot.callback]
               [] found /\ prompt = "throw" ->
                    /\ reply' = [reply EXCEPT ![u] = "callback_error"]
                    /\ slot' = [slot EXCEPT ![u].callback = IdleSlot.callback]
               [] OTHER ->
                    /\ reply' = [reply EXCEPT ![u] = "ask_target"]
                    /\ slot' = [slot EXCEPT ![u].callback.pc = "arm"]
    /\ UNCHANGED <<store, putCount, users, notifyOff, manual, channel, copies,
                   notified, post, disc, rec, fwd, rst, issued, sent, env, log>>

\* the callback ends: DB.put(`restore_state:${userId}`, 'waiting_target')
CallbackArm(u) ==
    /\ slot[u].callback.pc = "arm"
    /\ slot' = [slot EXCEPT ![u].state = "waiting_target",
                            ![u].callback = IdleSlot.callback]
    /\ UNCHANGED <<store, putCount, users, notifyOff, manual, channel, copies,
                   notified, post, disc, rec, fwd, rst, issued, sent, reply,
                   env, log>>

\* the destination input of TargetInput up to its deletes: the reads of
\* restore_state and restore_temp, resolveChannelId, the two getChat calls,
\* the key count, the message sent and the transfer from sourceId handed to
\* context.waitUntil; the branches that clear the slot stop before
\* DB.delete(`restore_state:${userId}`)
DestinationInput(u) ==
    /\ slot[u].state = "waiting_target"
    /\ slot[u].cleanup = ""
    /\ \E targetId \in ResolvedTargets, sourceChat \in Outcomes, targetChat \in Outcomes,
          answer \in {"ok", "throw"}, apology \in {"ok", "throw"} :
          LET sourceId == slot[u].source
              threw == "throw" \in {sourceChat, targetChat, answer}
          IN  /\ (sourceId = "") => sourceChat # "ok"
              /\ CASE targetId = "" ->
                     /\ reply' = [reply EXCEPT ![u] = "invalid_target"]
                     /\ UNCHANGED slot
                [] targetId # "" /\ threw /\ apology = "throw" ->
                     /\ reply' = [reply EXCEPT ![u] = "unanswered"]
                     /\ UNCHANGED slot
                [] targetId # "" /\ threw /\ apology = "ok" ->
                     /\ reply' = [reply EXCEPT ![u] = "error"]
                     /\ slot' = [slot EXCEPT ![u].cleanup = "delete_state"]
                [] targetId # "" /\ ~threw /\ "fail" \in {sourceChat, targetChat} ->
                     /\ reply' = [reply EXCEPT ![u] = "no_access"]
                     /\ UNCHANGED slot
                [] OTHER ->
                     /\ reply' = [reply EXCEPT ![u] =
                           IF BackupCount(store, sourceId) = 0
                           THEN "no_backups" ELSE "restore_started"]
                     /\ slot' = [slot EXCEPT ![u].cleanup = "delete_state"]
    /\ UNCHANGED <<store, putCount, users, notifyOff, manual, channel, copies,
                   notified, post, disc, rec, fwd, rst, issued, sent, env, log>>

\* await DB.delete(`restore_state:${userId}`)
CleanupState(u) ==
    /\ slot[u].cleanup = "delete_state"
    /\ slot' = [slot EXCEPT ![u].state = "", ![u].cleanup = "delete_temp"]
    /\ UNCHANGED <<store, putCount, users, notifyOff, manual, channel, copies,
                   notified, post, disc, rec, fwd, rst, issued, sent, reply,
                   env, log>>

\* await DB.delete(`restore_temp:${userId}:source`), the last statement of the
\* handler
CleanupTemp(u) ==
    /\ slot[u].cleanup = "delete_temp"
    /\ slot' = [slot EXCEPT ![u].source = "", ![u].cleanup = ""]
    /\ UNCHANGED <<store, putCount, users, notifyOff, manual, channel, copies,
                   notified, post, disc, rec, fwd, rst, issued, sent, reply,
                   env, log>>

\* a quick restore that ends like the button flow, with the two deletes
QuickRestoreClearing(u, sourceId) ==
    /\ \E outcome \in {"invalid_format", "source_not_listed", "restore_started"} :
          reply' = [reply EXCEPT ![u] = outcome]
    /\ slot' = [slot EXCEPT ![u].state = "", ![u].source = ""]
    /\ UNCHANGED <<store, putCount, users, notifyOff, manual, channel, copies,
                   notified, post, disc, rec, fwd, rst, issued, sent, env, log>>

\* /restore <source> <target> with a source that resolves to sourceId: an
\* unresolvable destination, a source that is not in the user's list, then
\* inside the try getChat of the destination, the key count and the message
\* sent, the transfer from sourceId handed to context.waitUntil; apology is
\* the message of the catch. Neither restore_state nor restore_temp is read
\* or written
QuickRestore(u, sourceId) ==
    /\ \E targetId \in ResolvedTargets, targetChat \in Outcomes,
          answer \in {"ok", "throw"}, apology \in {"ok", "throw"} :
          LET threw == "throw" \in {targetChat, answer} IN
          reply' = [reply EXCEPT ![u] =
             CASE targetId = "" -> "invalid_format"
               [] targetId # "" /\ ~HasChannel(u, ChanStr(sourceId)) ->
                     "source_not_listed"
               [] targetId # "" /\ HasChannel(u, ChanStr(sourceId)) /\ threw ->
                     IF apology = "ok" THEN "error" ELSE "unanswered"
               [] targetId # "" /\ HasChannel(u, ChanStr(sourceId)) /\ ~threw
                     /\ targetChat = "fail" -> "no_access"
               [] OTHER -> IF BackupCount(store, sourceId) = 0
                           THEN "no_backups" ELSE "restore_started"]
    /\ UNCHANGED <<store, putCount, users, notifyOff, manual, channel, copies,
                   notified, post, disc, rec, fwd, rst, issued, sent, slot,
                   env, log>>

---------------------------------------------------------------------------
(* Entry points: handleUpdate and the scheduled trigger                    *)

\* the worker has its secret and its KV binding
BothBindings == [TELEGRAM_BOT_TOKEN |-> TRUE, DB |-> TRUE]

\* a test of the token alone
ConfiguredTokenOnly(e) == e.TELEGRAM_BOT_TOKEN

\* !token || !DB, negated
Configured(e) == e.TELEGRAM_BOT_TOKEN /\ e.DB

\* handleUpdate(update, env, context): without both bindings it logs and
\* returns; otherwise the branch for the update runs
handleUpdate(branch) ==
    IF Configured(env)
    THEN branch
    ELSE /\ log' = log \cup {"Environment not configured properly"}
         /\ UNCHANGED <<store, putCount, users, notifyOff, manual, channel, copies,
                        notified, post, disc, rec, fwd, rst, issued, sent, slot,
                        reply, env>>

\* scheduled(event, env, ctx): without both bindings it logs and returns;
\* otherwise periodicBackupCheck starts
scheduled ==
    IF Configured(env)
    THEN RecStart
    ELSE /\ log' = log \cup {"Environment not configured"}
         /\ UNCHANGED <<store, putCount, users, notifyOff, manual, channel, copies,
                        notified, post, disc, rec, fwd, rst, issued, sent, slot,
                        reply, env>>

---------------------------------------------------------------------------
(* Restore Orchestrator: getChannelBackups and restoreBackupWithProgress *)

\* the decimal digits of a message id, as the key name prints it
RECURSIVE Digits(_)
Digits(n) == IF n < 10 THEN <<n>> ELSE Append(Digits(n \div 10), n % 10)

\* the order of strings: a is before b
LexLess(a, b) ==
    \E i \in 1..Len(b) :
        /\ \A j \in 1..(i - 1) : j <= Len(a) /\ a[j] = b[j]
        /\ (i > Len(a) \/ a[i] < b[i])

\* DB.list({prefix: `backup:${channelId}:`}): the keys of the prefix, in the
\* order of their names
RECURSIVE InNameOrder(_)
InNameOrder(keys) ==
    IF keys = {} THEN <<>>
    ELSE LET first == CHOOSE k \in keys :
                         \A j \in keys \ {k} : LexLess(Digits(k[2]), Digits(j[2]))
         IN  <<first>> \o InNameOrder(keys \ {first})

ListKeys(db, channelId) == InNameOrder({k \in DOMAIN db : k[1] = channelId.v})

\* messages.sort((a, b) => a.message_id - b.message_id): insertion keeps the
\* order of equal ids
RECURSIVE SortByMessageId(_)
SortByMessageId(messages) ==
    IF messages = <<>> THEN <<>>
    ELSE LET rest == SortByMessageId(SubSeq(messages, 1, Len(messages) - 1))
             x == messages[Len(messages)]
             before == SelectSeq(rest, LAMBDA e : e.message_id <= x.message_id)
             after == SelectSeq(rest, LAMBDA e : e.message_id > x.message_id)
         IN  before \o <<x>> \o after

\* getChannelBackups with the sort left out
getChannelBackupsUnsorted(db, channelId) ==
    LET keys == ListKeys(db, channelId)
    IN  [i \in 1..Len(keys) |-> db[keys[i]]]

getChannelBackups(db, channelId) ==
    LET keys == ListKeys(db, channelId)
    IN  SortByMessageId([i \in 1..Len(keys) |-> db[keys[i]]])

\* the if / else if chain of the loop body: the send of the first populated
\* field, "" when none is
SendKind(backup) ==
    IF backup.text # "" THEN "sendMessage"
    ELSE IF backup.photo # "" THEN "sendPhoto"
    ELSE IF backup.video # "" THEN "sendVideo"
    ELSE IF backup.document # "" THEN "sendDocument"
    ELSE IF backup.audio # "" THEN "sendAudio"
    ELSE IF backup.animation # "" THEN "sendAnimation"
    ELSE IF backup.sticker # "" THEN "sendSticker"
    ELSE ""

IdleRestore ==
    [pc |-> "idle", backups |-> <<>>, i |-> 0, restored |-> 0, failed |-> 0,
     statusMessageId |-> FALSE, totalCount |-> 0, returned |-> 0,
     threw |-> {}, refused |-> {}, progressThrew |-> FALSE,
     method |-> "", delayed |-> FALSE, report |-> {},
     bar |-> [progress |-> 0, barFilled |-> 0, barEmpty |-> 20]]

\* the call: the handler has counted the keys of the source (totalCount) and
\* may hold a status message; the function loads the backups, which by then
\* may be more than were counted (`added`, with totalCount > 0: the handler
\* starts no run for a source without entries)
RestoreStart ==
    /\ rst.pc = "idle"
    /\ \E status \in BOOLEAN, added \in 0..MaxAdded :
          /\ added > 0 => added < Len(ListKeys(store, ChanStr(ChannelName)))
          /\ rst' = [IdleRestore EXCEPT
                       !.pc = "loop",
                       !.backups = getChannelBackups(store, ChanStr(ChannelName)),
                       !.i = 1,
                       !.statusMessageId = status,
                       !.totalCount = Len(ListKeys(store, ChanStr(ChannelName))) - added]
    /\ UNCHANGED <<store, putCount, users, notifyOff, manual, channel, copies,
                   notified, post, disc, rec, fwd, issued, sent,
                   slot, reply, env, log>>

\* the head of one iteration: the send chosen for backups[i] is issued; an
\* entry with no populated field issues none. rst.delayed tells whether a
\* delay has elapsed since the latest send was issued
RestoreDispatch ==
    /\ rst.pc = "loop"
    /\ rst.i <= Len(rst.backups)
    /\ LET backup == rst.backups[rst.i] IN
          IF SendKind(backup) # ""
          THEN /\ issued' = Append(issued, backup.message_id)
               /\ rst' = [rst EXCEPT !.pc = "awaiting", !.delayed = FALSE,
                                     !.method = SendKind(backup),
                                     !.bar = IdleRestore.bar]
          ELSE /\ rst' = [rst EXCEPT !.pc = "progress", !.method = "",
                                     !.bar = IdleRestore.bar]
               /\ UNCHANGED issued
    /\ UNCHANGED <<store, putCount, users, notifyOff, manual, channel, copies,
                   notified, post, disc, rec, fwd, sent,
                   slot, reply, env, log>>

\* the awaited send returns: restored++ follows any answer, a throw goes to the
\* catch block
RestoreReturn ==
    /\ rst.pc = "awaiting"
    /\ \E answer \in Outcomes :
          /\ rst' = CASE answer = "throw" ->
                           [rst EXCEPT !.pc = "catch", !.returned = @ + 1,
                               !.threw = @ \cup {rst.backups[rst.i].message_id}]
                      [] answer = "fail" ->
                           [rst EXCEPT !.pc = "progress", !.returned = @ + 1,
                               !.restored = @ + 1,
                               !.refused = @ \cup {rst.backups[rst.i].message_id}]
                      [] OTHER ->
                           [rst EXCEPT !.pc = "progress", !.returned = @ + 1,
                               !.restored = @ + 1]
          /\ sent' = IF answer = "ok"
                     THEN Append(sent, rst.backups[rst.i].message_id) ELSE sent
    /\ UNCHANGED <<store, putCount, users, notifyOff, manual, channel, copies,
                   notified, post, disc, rec, fwd, issued,
                   slot, reply, env, log>>

\* Math.round(((restored + failed) / totalCount) * 100)
ProgressOf(restored, failed, totalCount) ==
    (200 * (restored + failed) + totalCount) \div (2 * totalCount)

\* progress, barFilled = Math.floor(progress / 5) and barEmpty = 20 - barFilled
BarOf(restored, failed, totalCount) ==
    LET progress == ProgressOf(restored, failed, totalCount) IN
    [progress |-> progress, barFilled |-> progress \div 5,
     barEmpty |-> 20 - (progress \div 5)]

\* the progress edit (every 3 seconds or when restored % 5 === 0, with a status
\* message), the delay, i++. The text of the edit is built first: with
\* barEmpty < 0 String.prototype.repeat throws a RangeError, which like a throw
\* of the edit goes to the catch block
RestoreProgress ==
    /\ rst.pc = "progress"
    /\ \E edit \in {"none", "ok", "throw"} :
          LET bar == BarOf(rst.restored, rst.failed, rst.totalCount) IN
          /\ (edit # "none") => rst.statusMessageId
          /\ (edit = "none" /\ rst.statusMessageId)
                => rst.restored % ProgressEvery # 0
          /\ (edit = "ok") => bar.barEmpty >= 0
          /\ rst' = CASE edit = "throw" ->
                           [rst EXCEPT !.pc = "catch", !.progressThrew = TRUE,
                                       !.bar = bar]
                      [] edit = "ok" ->
                           [rst EXCEPT !.pc = "loop", !.i = @ + 1, !.delayed = TRUE,
                                       !.bar = bar]
                      [] OTHER ->
                           [rst EXCEPT !.pc = "loop", !.i = @ + 1, !.delayed = TRUE]
    /\ UNCHANGED <<store, putCount, users, notifyOff, manual, channel, copies,
                   notified, post, disc, rec, fwd, issued, sent,
                   slot, reply, env, log>>

\* catch (err): failed++, the notice edit when failed === 5 with a status
\* message; a throw of that edit leaves the function
RestoreCatch ==
    /\ rst.pc = "catch"
    /\ \E edit \in {"none", "ok", "throw"} :
          /\ (edit # "none") <=>
                (rst.failed + 1 = FailureNotice /\ rst.statusMessageId)
          /\ rst' = IF edit = "throw"
                    THEN [rst EXCEPT !.pc = "aborted", !.failed = @ + 1,
                                     !.bar = IdleRestore.bar]
                    ELSE [rst EXCEPT !.pc = "loop", !.failed = @ + 1, !.i = @ + 1,
                                     !.bar = IdleRestore.bar]
    /\ UNCHANGED <<store, putCount, users, notifyOff, manual, channel, copies,
                   notified, post, disc, rec, fwd, issued, sent,
                   slot, reply, env, log>>

\* return restored, and the rest of the task that awaited it: with a status
\* message the completion edit, which states restored, the total and that all
\* backups were transferred; failed never leaves the function
RestoreEnd ==
    /\ rst.pc = "loop"
    /\ rst.i > Len(rst.backups)
    /\ \E edit \in {"none"} \cup Outcomes :
          /\ (edit = "none") <=> ~rst.statusMessageId
          /\ rst' = [rst EXCEPT !.pc = "done",
                       !.report = IF edit = "ok"
                                  THEN {"restored", "total", "all_transferred"}
                                  ELSE {}]
    /\ UNCHANGED <<store, putCount, users, notifyOff, manual, channel, copies,
                   notified, post, disc, rec, fwd, issued, sent,
                   slot, reply, env, log>>

---------------------------------------------------------------------------
(* Initial states and specifications *)

\* the channels over the ids S whose messages are of the kinds K and sizes Z
Channels(S, K, Z) ==
    [S -> {NoMessage} \cup
          UNION {{[Message(0, k, z) EXCEPT !.message_id = m] : k \in K, z \in Z} : m \in S}]

\* a channel holds at id m a message whose message_id is m
WellFormed(ch) == \A m \in DOMAIN ch : ch[m] = NoMessage \/ ch[m].message_id = m

InitCommon ==
    /\ putCount = 0
    /\ users = [u \in Users |-> <<>>]
    /\ notifyOff = {}
    /\ manual = [u \in Users |-> ""]
    /\ copies = {}
    /\ notified = {}
    /\ post = [id |-> 0, result |-> "none"]
    /\ disc = [u \in Users |-> IdleRun]
    /\ rec = IdleSweep
    /\ fwd = [id |-> 0, result |-> "none"]
    /\ rst = IdleRestore
    /\ issued = <<>>
    /\ sent = <<>>
    /\ slot = [u \in Users |-> IdleSlot]
    /\ reply = [u \in Users |-> ""]
    /\ env = BothBindings
    /\ log = {}

\* the state /addchannel of user u1 leaves: the channel is in the list, the
\* added answer is sent and the discovery task is handed to context.waitUntil
InitStarted ==
    /\ putCount = 0
    /\ users = [u \in Users |-> IF u = "u1" THEN <<ChanStr(ChannelName)>> ELSE <<>>]
    /\ notifyOff = {}
    /\ manual = [u \in Users |-> ""]
    /\ copies = {}
    /\ notified = {}
    /\ post = [id |-> 0, result |-> "none"]
    /\ disc = [u \in Users |-> IF u = "u1" THEN [IdleRun EXCEPT !.pc = "start"]
                                ELSE IdleRun]
    /\ rec = IdleSweep
    /\ fwd = [id |-> 0, result |-> "none"]
    /\ rst = IdleRestore
    /\ issued = <<>>
    /\ sent = <<>>
    /\ slot = [u \in Users |-> IdleSlot]
    /\ reply = [u \in Users |-> IF u = "u1" THEN "added" ELSE ""]
    /\ env = BothBindings
    /\ log = {}

\* Spec: the recorder, the discovery run of a fresh registration and manual
\* capture on one channel, interleaved; the channel holds messages at some of the two highest ids of the
\* range discovery scans
WriterIds == {LatestGuessOk - 1, LatestGuessOk}

Init ==
    /\ InitStarted
    /\ store = <<>>
    /\ channel \in {ch \in Channels(WriterIds, {"text"}, {1}) : WellFormed(ch)}

Discovery(u) ==
    \/ DiscInit(u)
    \/ DiscProbe(u)
    \/ DiscCheck(u)
    \/ DiscSkip(u)
    \/ DiscSave(u)
    \/ DiscDelete(u)
    \/ DiscFinish(u)
    \/ DiscCatch(u)

Reconciler ==
    \/ RecStart
    \/ RecChannel
    \/ RecProbe
    \/ RecDelete
    \/ RecCheck
    \/ RecSave
    \/ RecSummary

Next ==
    \/ \E m \in WriterIds : BackupChannelPost(m)
    \/ Discovery("u1")
    \/ ArmManual("u1")
    \/ StopManual("u1")
    \/ \E m \in WriterIds : ManualCapture("u1", m)

Spec == Init /\ [][Next]_vars

\* SpecRestore: one restore run over a store the write paths have filled
RestoreIds == 8..RestoreHi

\* the message the source channel held at id m
SourceMessage(m) ==
    IF m = 8 THEN [Message(0, "photo", 1) EXCEPT !.message_id = m]
    ELSE [Message(0, "text", 1) EXCEPT !.message_id = m]

\* the entry the store holds for id m: the reconciler found 9, the recorder
\* the others
SourceEntry(m) == IF m = 9 THEN PeriodicEntry(m) ELSE AutoEntry(SourceMessage(m))

InitRestore ==
    /\ InitCommon
    /\ channel = <<>>
    /\ \E S \in SUBSET RestoreIds :
          store = [k \in {BackupKey(ChanStr(ChannelName), m) : m \in S} |->
                      SourceEntry(k[2])]

NextRestore ==
    \/ RestoreStart
    \/ RestoreDispatch
    \/ RestoreReturn
    \/ RestoreProgress
    \/ RestoreCatch
    \/ RestoreEnd

SpecRestore == InitRestore /\ [][NextRestore]_vars

\* SpecRecorder: channel_post updates, delivered any number of times, for a
\* channel whose messages are of every kind and size
RecorderIds == {1, 2}

InitRecorder ==
    /\ InitCommon
    /\ store = <<>>
    /\ channel \in {ch \in Channels(RecorderIds, Kinds, Sizes) : WellFormed(ch)}

NextRecorder == \E m \in RecorderIds : BackupChannelPost(m)

SpecRecorder == InitRecorder /\ [][NextRecorder]_vars

\* SpecDiscovery: one discovery run beside the recorder of the posts at the two
\* highest ids scanned; the channel holds messages at some of the ids 48, 49,
\* 50 and of those two
DiscoveryIds == {48, 49, 50, LatestGuessOk - 1, LatestGuessOk}

InitDiscovery ==
    /\ InitStarted
    /\ store = <<>>
    /\ channel \in {ch \in Channels(DiscoveryIds, {"text"}, {1}) : WellFormed(ch)}

NextDiscovery ==
    \/ \E m \in WriterIds : BackupChannelPost(m)
    \/ Discovery("u1")

SpecDiscovery == InitDiscovery /\ [][NextDiscovery]_vars

\* SpecReconcile: sweeps of the reconciler beside the recorder, for users who
\* registered the channel earlier
ReconcileIds == {1, 2, CheckRange + 1}

InitReconcile ==
    /\ putCount = 0
    /\ users \in {us \in [Users -> {<<>>, <<ChanStr(ChannelName)>>}] : us["u1"] # <<>>}
    /\ notifyOff = {}
    /\ manual = [u \in Users |-> ""]
    /\ copies = {}
    /\ notified = {}
    /\ post = [id |-> 0, result |-> "none"]
    /\ disc = [u \in Users |-> IdleRun]
    /\ rec = IdleSweep
    /\ fwd = [id |-> 0, result |-> "none"]
    /\ rst = IdleRestore
    /\ issued = <<>>
    /\ sent = <<>>
    /\ slot = [u \in Users |-> IdleSlot]
    /\ reply = [u \in Users |-> ""]
    /\ env = BothBindings
    /\ log = {}
    /\ store = <<>>
    /\ channel \in {ch \in Channels(ReconcileIds, {"text"}, {1}) : WellFormed(ch)}

NextReconcile ==
    \/ \E m \in ReconcileIds : BackupChannelPost(m)
    \/ Reconciler
    \/ NotifyOff("u1")
    \/ NotifyOn("u1")

SpecReconcile == InitReconcile /\ [][NextReconcile]_vars

\* SpecSweep: sweeps of the reconciler alone, over the channels and
\* registrations of SpecReconcile
InitSweep == InitReconcile

NextSweep == Reconciler

SpecSweep == InitSweep /\ [][NextSweep]_vars

\* SpecCommands: /addchannel and /removechannel of one user beside the discovery
\* runs they start, the recorder and manual capture; the channel holds a
\* message at the highest id scanned, or none
CommandIds == {LatestGuessOk}

InitCommands ==
    /\ InitCommon
    /\ store = <<>>
    /\ channel \in {ch \in Channels(CommandIds, {"text"}, {1}) : WellFormed(ch)}

NextCommands ==
    \/ AddChannel("u1")
    \/ RemoveChannel("u1")
    \/ Discovery("u1")
    \/ \E m \in CommandIds : BackupChannelPost(m)
    \/ ArmManual("u1")
    \/ \E m \in CommandIds : ManualCapture("u1", m)

SpecCommands == InitCommands /\ [][NextCommands]_vars

\* SpecFlow: the restore flow of two users, who have registered the channel or
\* not and may remove it, over a source with or without a stored entry
InitFlow ==
    /\ putCount = 0
    /\ users \in [Users -> {<<>>, <<ChanStr(ChannelName)>>}]
    /\ notifyOff = {}
    /\ manual = [u \in Users |-> ""]
    /\ copies = {}
    /\ notified = {}
    /\ post = [id |-> 0, result |-> "none"]
    /\ disc = [u \in Users |-> IdleRun]
    /\ rec = IdleSweep
    /\ fwd = [id |-> 0, result |-> "none"]
    /\ rst = IdleRestore
    /\ issued = <<>>
    /\ sent = <<>>
    /\ slot = [u \in Users |-> IdleSlot]
    /\ reply = [u \in Users |-> ""]
    /\ env = BothBindings
    /\ log = {}
    /\ channel = <<>>
    /\ \E S \in SUBSET {8} :
          store = [k \in {BackupKey(ChanStr(ChannelName), m) : m \in S} |->
                      SourceEntry(k[2])]

NextFlow ==
    \E u \in Users :
       \/ PickSource(u)
       \/ TargetInput(u)
       \/ RemoveChannel(u)

SpecFlow == InitFlow /\ [][NextFlow]_vars

\* SpecManual: manual capture of one user beside the recorder and the user's
\* own restore flow; the channel holds a text, a photo or nothing at each id
ManualIds == {1, 2}

InitManual ==
    /\ InitStarted
    /\ store = <<>>
    /\ channel \in {ch \in Channels(ManualIds, {"text", "photo"}, {1}) : WellFormed(ch)}

NextManual ==
    \/ ArmManual("u1")
    \/ StopManual("u1")
    \/ \E from \in {ChannelName, OtherName}, m \in ManualIds :
          ForwardedMessage("u1", from, m)
    \/ PickSource("u1")
    \/ \E m \in ManualIds : BackupChannelPost(m)

SpecManual == InitManual /\ [][NextManual]_vars

\* SpecSlot: the updates of user u1, handled concurrently: source callbacks
\* naming the user's own channel or the channel of u2, destination inputs,
\* quick restores and the commands beside them; either channel may have a
\* stored entry
SlotIds == {1}

InitSlot ==
    /\ putCount = 0
    /\ users = [u \in Users |-> IF u = "u1" THEN <<ChanStr(ChannelName)>>
                                 ELSE <<ChanStr(OtherName)>>]
    /\ notifyOff = {}
    /\ manual = [u \in Users |-> ""]
    /\ copies = {}
    /\ notified = {}
    /\ post = [id |-> 0, result |-> "none"]
    /\ disc = [u \in Users |-> IdleRun]
    /\ rec = IdleSweep
    /\ fwd = [id |-> 0, result |-> "none"]
    /\ rst = IdleRestore
    /\ issued = <<>>
    /\ sent = <<>>
    /\ slot = [u \in Users |-> IdleSlot]
    /\ reply = [u \in Users |-> ""]
    /\ env = BothBindings
    /\ log = {}
    /\ channel \in {ch \in Channels(SlotIds, {"text", "photo"}, {1}) :
                       WellFormed(ch) /\ \E m \in SlotIds : ch[m] # NoMessage}
    /\ \E S \in SUBSET SourceNames :
          store = [k \in {BackupKey(ChanStr(c), 8) : c \in S} |-> SourceEntry(k[2])]

NextSlot ==
    \/ \E sourceId \in SourceNames : CallbackPut("u1", sourceId)
    \/ CallbackLookup("u1")
    \/ CallbackArm("u1")
    \/ DestinationInput("u1")
    \/ CleanupState("u1")
    \/ CleanupTemp("u1")
    \/ \E sourceId \in SourceNames : QuickRestore("u1", sourceId)
    \/ NotifyOff("u1")
    \/ NotifyOn("u1")
    \/ ArmManual("u1")
    \/ StopManual("u1")
    \/ \E from \in SourceNames, m \in SlotIds : ForwardedMessage("u1", from, m)

SpecSlot == InitSlot /\ [][NextSlot]_vars

\* SpecEntry: the two entry points under every combination of the bindings;
\* updates are channel posts and the notification commands
EntryIds == {1, 2}

InitEntry ==
    /\ putCount = 0
    /\ users \in [Users -> {<<>>, <<ChanStr(ChannelName)>>}]
    /\ notifyOff = {}
    /\ manual = [u \in Users |-> ""]
    /\ copies = {}
    /\ notified = {}
    /\ post = [id |-> 0, result |-> "none"]
    /\ disc = [u \in Users |-> IdleRun]
    /\ rec = IdleSweep
    /\ fwd = [id |-> 0, result |-> "none"]
    /\ rst = IdleRestore
    /\ issued = <<>>
    /\ sent = <<>>
    /\ slot = [u \in Users |-> IdleSlot]
    /\ reply = [u \in Users |-> ""]
    /\ log = {}
    /\ store = <<>>
    /\ env \in [TELEGRAM_BOT_TOKEN : BOOLEAN, DB : BOOLEAN]
    /\ channel \in {ch \in Channels(EntryIds, {"text"}, {1}) : WellFormed(ch)}

NextEntry ==
    \/ handleUpdate(\E m \in EntryIds : BackupChannelPost(m))
    \/ handleUpdate(NotifyOff("u1"))
    \/ handleUpdate(NotifyOn("u1"))
    \/ scheduled
    \/ RecChannel
    \/ RecProbe
    \/ RecDelete
    \/ RecCheck
    \/ RecSave
    \/ RecSummary

SpecEntry == InitEntry /\ [][NextEntry]_vars

---------------------------------------------------------------------------
(* Properties *)

Range(seq) == {seq[i] : i \in 1..Len(seq)}

Ascending(seq) == \A i, j \in 1..Len(seq) : i < j => seq[i] < seq[j]

\* C1: after any interleaving of the write paths the store holds one Backup
\* Entry per (channel id, message id), and a saved count (backedUpCount of
\* discovery, totalBacked of the reconciler) goes up only with the first write
\* of a pair, never with a second one.
C1_OneEntryPerPair ==
    [][/\ \A k \in DOMAIN store' :
             Cardinality(EntriesFor(store', k[1], store'[k].message_id)) = 1
       /\ \A u \in Users :
             disc'[u].backedUpCount > disc[u].backedUpCount
                => ~isMessageBackedUp(store, ChanStr(ChannelName), disc[u].msgId)
       /\ rec'.totalBacked > rec.totalBacked
             => ~isMessageBackedUp(store, ChanStr(ChannelName), rec.msgId)]_vars

\* C2: a second backupChannelPost for a message the recorder has already
\* stored with the same content leaves one entry and makes no store write.
C2_SecondPostIsNoOp ==
    [][\A m \in DOMAIN channel :
          (/\ BackupChannelPost(m)
           /\ isMessageBackedUp(store, ChanNum(ChannelName), m)
           /\ store[BackupKey(ChanNum(ChannelName), m)] = AutoEntry(channel[m]))
          => /\ putCount' = putCount
             /\ Cardinality(EntriesFor(store', ChannelName, m)) = 1]_vars

\* C3: once an entry exists no step of any write path changes its content or
\* its provenance tags.
C3_EntriesImmutable ==
    [][\A k \in DOMAIN store : k \in DOMAIN store' /\ store'[k] = store[k]]_vars

\* C4: restore issues its sends in strictly ascending message-id order, the
\* destination receives them in that order, and a send is issued only when
\* every earlier one has returned.
C4_AscendingSequentialSends ==
    /\ Ascending(issued)
    /\ Ascending(sent)
    /\ Len(issued) <= rst.returned + 1
    /\ (rst.pc \in {"loop", "progress", "catch", "done", "aborted"})
          => Len(issued) = rst.returned

\* a finished run over a source whose keys the store lists in another order
\* than that of the ids ("10" is before "8")
C4_Witness ==
    /\ rst.pc = "done"
    /\ issued = <<8, 10, 11>>
    /\ sent = <<8, 10, 11>>

\* any media of any kind of the message reports a size over the ceiling
AnyMediaTooLarge(message) ==
    \/ \E f \in {message.video, message.document, message.audio, message.voice,
                 message.video_note, message.sticker, message.animation} :
          FileSize(f) > FileSizeLimit
    \/ \E i \in 1..Len(message.photo) : message.photo[i].file_size > FileSizeLimit

\* C5: a channel post with any attached media over 25 MiB never produces a
\* Backup Entry, and the recorder reports the skip without an error.
C5_OversizedNeverStored ==
    /\ \A m \in Posted :
          AnyMediaTooLarge(channel[m])
             => ~isMessageBackedUp(store, ChanNum(ChannelName), m)
    /\ (post.id \in Posted /\ AnyMediaTooLarge(channel[post.id]))
          => post.result = "file_too_large"

RestoreEnded == rst.pc \in {"done", "aborted"}

Sendable == {i \in 1..Len(rst.backups) : SendKind(rst.backups[i]) # ""}

\* C6: throwing sends never abort the batch: when restore ends (no progress edit
\* having thrown), the send of every entry with content has been
\* issued; for text entries 10, 11, 12 where only the send of 11 throws it
\* ends with restored = 2, failed = 1 and the destination holding 10 then 12.
C6_FailureNeverAborts ==
    (RestoreEnded /\ ~rst.progressThrew) =>
       /\ \A i \in Sendable : rst.backups[i].message_id \in Range(issued)
       /\ (/\ [i \in 1..Len(rst.backups) |-> rst.backups[i].message_id] = <<10, 11, 12>>
           /\ rst.threw = {11} /\ rst.refused = {})
          => (rst.restored = 2 /\ rst.failed = 1 /\ sent = <<10, 12>>)

\* C7: at the end of restore, restored + failed is the number of entries minus
\* those with no sendable content.
C7_CountsAccountForEntries ==
    RestoreEnded => rst.restored + rst.failed = Cardinality(Sendable)

\* C8: a send answered ok=false counts as failed and not as restored: between
\* iterations restored is at most the number of sends answered ok, and failed
\* at least the number of sends that threw or were answered ok=false.
C8_RefusedSendCountsAsFailure ==
    (rst.pc \in {"loop", "done"}) =>
       /\ rst.restored <= Len(sent)
       /\ rst.failed >= Cardinality(rst.refused) + Cardinality(rst.threw)

C10_RegistrationScenario ==
    (Posted = {48, 49, 50} /\ disc["u1"].pc = "done")
       => /\ {k[2] : k \in DOMAIN store} = {48, 49, 50}
          /\ disc["u1"].backedUpCount = 3
          /\ disc["u1"].scannedCount = 51
          /\ copies = {}

\* the discovery runs that have ended: returned, reported an error, or raised
DiscEnded(u) == disc[u].pc \in {"done", "failed", "raised"}

\* C11: whenever discovery moves to the next id or ends, normally or on error,
\* every forwarded copy its probes created has had its delete issued.
C11_EveryCopyGetsDelete ==
    \A u \in Users :
       (disc[u].pc = "loop" \/ DiscEnded(u)) => disc[u].pending = {}

\* C12: a probe that fails, by an ok=false answer or by a thrown exception,
\* leaves the scan running: the failure counter goes up by one and the next
\* lower id is the candidate.
C12_FailedProbeNeverAborts ==
    [][\A u \in Users :
          (/\ disc[u].pc = "loop"
           /\ disc'[u].scannedCount = disc[u].scannedCount + 1
           /\ disc'[u].pc # "check")
          => /\ disc'[u].pc = "loop"
             /\ disc'[u].consecutiveFailures = disc[u].consecutiveFailures + 1
             /\ disc'[u].msgId = disc[u].msgId - 1]_vars

\* C13: backupExistingMessages never raises past its caller: a run in which
\* something threw ends with the error report sent to the user.
C13_NeverRaisesPastCaller ==
    \A u \in Users :
       /\ disc[u].pc # "raised"
       /\ (DiscEnded(u) /\ disc[u].threw) => disc[u].report = "error"

\* C14: no step of any command or background operation removes a backup key
\* from the store, /removechannel of the channel included.
C14_BackupsNeverDeleted ==
    [][\A k \in DOMAIN store : k \in DOMAIN store']_vars

\* the channel was removed from the list of u1 while an entry of it is stored
C14_Witness ==
    /\ reply["u1"] = "removed"
    /\ users["u1"] = <<>>
    /\ isMessageBackedUp(store, ChanStr(ChannelName), LatestGuessOk)

\* no chat id occurs twice in the list
NoDuplicate(list) == \A i, j \in 1..Len(list) : list[i] = list[j] => i = j

C16_DestinationInputClearsSlot ==
    [][\A u \in Users :
          (slot[u].state = "waiting_target" /\ TargetInput(u))
             => slot'[u] = IdleSlot]_vars

\* C17: with the token or the store binding missing, a step of an entry point
\* changes nothing of the store, the channel or any chat: only the log grows.
C17_MissingBindingNoEffect ==
    [][(~env.TELEGRAM_BOT_TOKEN \/ ~env.DB)
          => UNCHANGED <<store, putCount, users, notifyOff, manual, channel, copies,
                         notified, post, disc, rec, fwd, rst, issued, sent, slot,
                         reply, env>>]_vars

\* both entry points have been invoked without the store binding
C17_Witness ==
    /\ env.TELEGRAM_BOT_TOKEN /\ ~env.DB
    /\ log = {"Environment not configured properly", "Environment not configured"}
    /\ store = <<>>

\* C18: no notification goes to a user whose preference is 'off': neither a
\* new-backup message of the recorder nor a summary of the reconciler.
C18_NotifyOffSilences ==
    [][\A u \in notifyOff :
          /\ u \notin (rec'.summaries \ rec.summaries)
          /\ \A n \in notified' \ notified : n[1] # u]_vars

C20_CompletedRunReports ==
    \A u \in Users : disc[u].pc = "done" => disc[u].report = "final"

\* C21: throughout a discovery scan a delay separates every two consecutive
\* probes: a probe that is not the first of its run is issued only after a
\* delay has followed the probe before it, whether that one failed, saved a new
\* entry, or met an id already backed up.
C21_DelayBetweenProbes ==
    [][\A u \in Users :
          (disc'[u].scannedCount = disc[u].scannedCount + 1 /\ disc[u].scannedCount > 0)
             => disc[u].delayed]_vars

\* the content kinds in the order the specification gives them, and the send
\* of each
Priority == <<"text", "photo", "video", "document", "audio", "animation", "sticker">>

SendOf ==
    [text |-> "sendMessage", photo |-> "sendPhoto", video |-> "sendVideo",
     document |-> "sendDocument", audio |-> "sendAudio",
     animation |-> "sendAnimation", sticker |-> "sendSticker"]

Populated(b) == {k \in 1..Len(Priority) : b[Priority[k]] # ""}

FirstPopulated(b) == Priority[CHOOSE k \in Populated(b) : \A j \in Populated(b) : k <= j]

\* C22: for each entry restore dispatches exactly one send, that of the first
\* populated field in the order text, photo, video, document, audio, animation,
\* sticker; an entry with none of these fields produces no send and changes
\* neither restored nor failed.
C22_OneSendByPriority ==
    [][(rst.pc \in {"loop", "awaiting", "progress", "catch"}
         /\ rst.i \in 1..Len(rst.backups))
        => LET b == rst.backups[rst.i] IN
           IF Populated(b) # {}
           THEN IF rst.pc = "loop"
                THEN /\ issued' = Append(issued, b.message_id)
                     /\ rst'.method = SendOf[FirstPopulated(b)]
                ELSE issued' = issued
           ELSE /\ issued' = issued
                /\ rst'.restored = rst.restored
                /\ rst'.failed = rst.failed]_vars

\* C23: in a restore run a delay elapses between every two consecutive sends,
\* also when the earlier send failed: a send that is not the first of the run
\* is issued only after a delay has followed the send before it.
C23_DelayBetweenSends ==
    [][(Len(issued') = Len(issued) + 1 /\ Len(issued) > 0) => rst.delayed]_vars

\* C24: every restore run that was started (over at least one entry) ends by
\* pushing a final report that states the counts restored and failed, also
\* when failed > 0, and that does not report a partial success otherwise than
\* by its counts.
C24_FinalReportStatesCounts ==
    (RestoreEnded /\ Len(rst.backups) > 0)
       => /\ {"restored", "failed"} \subseteq rst.report
          /\ rst.failed > 0 => "all_transferred" \notin rst.report

\* C25: when a channel post is recorded for a channel that users registered
\* through /addchannel (which stores the id as a string), every such user
\* whose preference is not 'off' is sent a new-backup notification for it.
C25_OwnersNotified ==
    [][\A m \in WriterIds :
          (BackupChannelPost(m) /\ post'.result = "success")
             => \A u \in Users :
                   (HasChannel(u, ChanStr(ChannelName)) /\ u \notin notifyOff)
                      => <<u, ChannelName, post'.id>> \in notified']_vars

\* the ids of the entries the store holds for a channel, and the largest of
\* them (0 when there is none)
KnownIds(db, channelId) == {k[2] : k \in {j \in DOMAIN db : j[1] = channelId.v}}

LatestKnownId(db, channelId) ==
    IF KnownIds(db, channelId) = {} THEN 0
    ELSE CHOOSE m \in KnownIds(db, channelId) : \A n \in KnownIds(db, channelId) : n <= m

\* C26: in one sweep and for one registered channel the reconciler takes
\* latestKnownId as the largest id among the channel's entries (0 with none),
\* probes only ids latestKnownId + 1 .. latestKnownId + 100, at most 100 of
\* them, and writes no entry for an id that already has one.
C26_WindowAndNoRewrite ==
    [][/\ (rec.pc = "channel" /\ rec'.pc = "probe")
             => /\ rec'.latestBackupId = LatestKnownId(store, ChanStr(ChannelName))
                /\ rec'.msgId = rec'.latestBackupId + 1
       /\ (rec'.probes = rec.probes + 1)
             => /\ rec.msgId \in (rec.latestBackupId + 1)..(rec.latestBackupId + CheckRange)
                /\ rec'.probes <= CheckRange
       /\ (rec'.totalBacked > rec.totalBacked)
             => ~isMessageBackedUp(store, ChanStr(ChannelName), rec.msgId)]_vars

\* C27: for every successful probe, of the reconciler and of discovery alike,
\* the order is probe, delete of the copy, record: no entry is written while a
\* copy of the run is in the channel without its delete having been issued.
C27_DeleteBeforeRecord ==
    [][/\ \A u \in Users :
             disc'[u].backedUpCount > disc[u].backedUpCount => disc[u].pending = {}
       /\ rec'.totalBacked > rec.totalBacked => rec.pending = {}]_vars

\* the users who have the channel in their list with notifications on
Subscribers == {u \in Users : HasChannel(u, ChanStr(ChannelName)) /\ u \notin notifyOff}

\* C28: a sweep that recorded at least one new entry for the channel (and in
\* which no call was rejected into the per-channel or the outermost catch) ends
\* with a count summary sent to every user who has the channel registered with
\* notifications on; a pass that recorded nothing sends no summary.
C28_SummaryToEveryRegistrant ==
    [][/\ (rec.pc # "done" /\ rec'.pc = "done" /\ ~rec'.aborted /\ ~rec'.caught
               /\ rec'.totalBacked > 0)
             => Subscribers \subseteq rec'.summaries
       /\ (rec'.summaries \ rec.summaries # {}) => rec.newBackups > 0]_vars

\* C30: within a sweep a delay separates every two consecutive probes of a
\* channel, whatever the earlier probe came to, and every two consecutive
\* channels.
C30_DelayBetweenProbesAndChannels ==
    [][/\ (rec'.probes = rec.probes + 1 /\ rec.probes > 0) => rec.delayed
       /\ (rec'.totalChecked = rec.totalChecked + 1 /\ rec.totalChecked > 0)
             => rec.paused]_vars

\* C29: an error while probing or notifying for one channel never aborts the
\* sweep: a sweep ends (unless the read of the user keys or of a user's record
\* was rejected) with every registered channel of every user checked, and the
\* function never raises to its caller.
C29_ChannelErrorNeverAborts ==
    /\ rec.pc # "raised"
    /\ (rec.pc = "done" /\ ~rec.aborted)
          => /\ rec.todo = <<>>
             /\ rec.totalChecked = Len(SweepPairs(UserOrder))

\* the pass of u2's channel is probing after the pass of u1's channel saved an
\* entry and the summary to u1 threw
C29_Witness ==
    /\ rec.pc = "probe"
    /\ rec.user = "u2"
    /\ rec.probes > 0
    /\ rec.caught
    /\ rec.totalBacked > 0
    /\ rec.newBackups = 0
    /\ rec.summaries = {}

\* what an entry holds beside its id, date and provenance tags
ContentFields ==
    {"text", "caption", "photo", "video", "document", "audio", "voice",
     "video_note", "sticker", "animation"}

Content(e) == [f \in ContentFields |-> e[f]]

\* C31: two writers racing on one (channel id, message id) write the same
\* content: a write to a pair that already has an entry leaves the content of
\* the entry as it was, so whichever write lands last nothing recorded is lost.
C31_RacingWritesIdentical ==
    [][\A k \in DOMAIN store \cap DOMAIN store' :
          Content(store'[k]) = Content(store[k])]_vars

\* C32: a message forwarded to the bot is saved only if the user has manual
\* mode armed for the channel it was forwarded from (so never after
\* /stopmanual); when armed, an entry that exists is left alone and the user
\* told so, otherwise exactly one entry tagged manual_backup is written under
\* the original message id.
C32_ManualCaptureArmedOnly ==
    [][\A from \in {ChannelName, OtherName}, m \in ManualIds :
          ForwardedMessage("u1", from, m)
             => IF manual["u1"] # from
                THEN store' = store
                ELSE IF isMessageBackedUp(store, ChanStr(from), m)
                THEN store' = store /\ fwd' = [id |-> m, result |-> "exists"]
                ELSE /\ DOMAIN store' = DOMAIN store \cup {BackupKey(ChanStr(from), m)}
                     /\ "manual_backup" \in store'[BackupKey(ChanStr(from), m)].tags
                     /\ store'[BackupKey(ChanStr(from), m)].message_id = m
                     /\ \A k \in DOMAIN store : store'[k] = store[k]]_vars

\* the upper-bound estimate as stated: 10000 when the chat resolves, 1000
\* otherwise
Estimate(r) == IF r.chatInfo = "ok" THEN 10000 ELSE 1000

C35_NoBackfillOutsideWindow ==
    [][/\ (rec.pc = "channel" /\ rec'.pc = "probe")
             => rec'.latestBackupId = LatestKnownId(store, ChanStr(ChannelName))
       /\ (rec.pc \in {"probe", "delete", "check", "save"})
             => \A k \in DOMAIN store' :
                   (k \notin DOMAIN store \/ store'[k] # store[k])
                      => /\ k[2] > rec.latestBackupId
                         /\ k[2] <= rec.latestBackupId + 100]_vars

\* a pass is probing above the entry of id 2 while the channel's message 1
\* has no entry
C35_Witness ==
    /\ rec.pc = "probe"
    /\ rec.latestBackupId = 2
    /\ rec.probes > 0
    /\ 1 \in Posted
    /\ ~isMessageBackedUp(store, ChanStr(ChannelName), 1)

\* C36: an entry created by the Periodic Reconciler holds only its message id,
\* date and provenance tags, no sendable content; the iteration of a restore
\* over such an entry issues no send and changes neither restored nor failed.
C36_PeriodicEntrySkippedByRestore ==
    [][(rst.pc \in {"loop", "awaiting", "progress", "catch"}
         /\ rst.i \in 1..Len(rst.backups)
         /\ "periodic_backup" \in rst.backups[rst.i].tags)
        => /\ \A f \in ContentFields : rst.backups[rst.i][f] = ""
           /\ issued' = issued
           /\ rst'.restored = rst.restored
           /\ rst'.failed = rst.failed]_vars

CommandMessage(u) ==
    \/ NotifyOff(u)
    \/ NotifyOn(u)
    \/ ArmManual(u)
    \/ StopManual(u)
    \/ \E sourceId \in SourceNames : QuickRestore(u, sourceId)
    \/ \E from \in SourceNames, m \in Posted :
          channel[m].text = "" /\ ForwardedMessage(u, from, m)

\* C39: a command or a message without text of a user whose restore_state is
\* waiting_target leaves restore_state and restore_temp as they are, so the
\* next plain text of the user is still taken as the destination
C39_CommandKeepsFlowArmed ==
    [][\A u \in Users :
          (slot[u].state = "waiting_target" /\ CommandMessage(u))
             => /\ slot'[u].state = "waiting_target"
                /\ slot'[u].source = slot[u].source]_vars

\* C39 witness: the quick restore has answered that the source is not listed
\* while the flow is armed with the source of a later callback
C39_Witness ==
    /\ slot["u1"].state = "waiting_target"
    /\ slot["u1"].source = OtherName
    /\ reply["u1"] = "source_not_listed"

\* C40: every restore handleUpdate starts for a user, from the destination
\* input of the button flow or from the quick command, reads a source channel
\* that is in the list of that user
C40_RestoreSourceInList ==
    [][\A u \in Users :
          /\ (DestinationInput(u) /\ reply'[u] = "restore_started")
                => HasChannel(u, ChanStr(slot[u].source))
          /\ \A sourceId \in SourceNames :
                (QuickRestore(u, sourceId) /\ reply'[u] = "restore_started")
                   => HasChannel(u, ChanStr(sourceId))]_vars

====
